---- MODULE Spec2Model ----
(***************************************************************************)
(* fedmsg_meta_fedora_infrastructure.fasshim: the FAS lookup shim.         *)
(*                                                                         *)
(* Python strings are sequences of one-character strings, so that          *)
(* endswith, rsplit, join, format and urlencode are computed.  None is the *)
(* empty tuple and a present optional value s is <<s>>.  A hex digest is   *)
(* the symbolic term [alg, data].                                          *)
(***************************************************************************)
EXTENDS Integers, Sequences, FiniteSets, TLC

VARIABLES fas_region, last, searches, returned, lastAvatar, avatarLog, ncalls,
          origin, resolved, directory, threads

vars == <<fas_region, last, searches, returned, lastAvatar, avatarLog, ncalls,
          origin, resolved, directory, threads>>

(* ------------------------------ bounds -------------------------------- *)

\* Resolver calls made in one behaviour of Spec.
MaxCalls == 2

\* Calls made in one behaviour of SpecAvatar.
MaxAvatarCalls == 3

\* The most calls of the resolvers in a behaviour with evictions.
MaxStableCalls == 3

(* ------------------------------ strings ------------------------------- *)

None == <<>>

Some(s) == <<s>>

\* Python truthiness of an optional string: None and '' are false.
Truthy(opt) == opt # None /\ opt[1] # <<>>

FedoraSuffix == <<"@", "f", "e", "d", "o", "r", "a", "p", "r", "o", "j", "e", "c", "t", ".", "o", "r", "g">>

NoneStr == <<"N", "o", "n", "e">>

DefaultBaseUrl == <<"h", "t", "t", "p", "s", ":", "/", "/", "a", "d", "m", "i", "n", ".", "f", "e", "d", "o", "r", "a", "p", "r", "o", "j", "e", "c", "t", ".", "o", "r", "g", "/", "a", "c", "c", "o", "u", "n", "t", "s", "/">>

DictUsername == <<"{", "'", "u", "s", "e", "r", "n", "a", "m", "e", "'", ":", " ", "'">>

DictPassword == <<"'", ",", " ", "'", "p", "a", "s", "s", "w", "o", "r", "d", "'", ":", " ", "'">>

DictBaseUrl == <<"'", ",", " ", "'", "b", "a", "s", "e", "_", "u", "r", "l", "'", ":", " ", "'">>

DictClose == <<"'", "}">>

\* str.endswith
EndsWith(s, suffix) ==
    /\ Len(s) >= Len(suffix)
    /\ SubSeq(s, Len(s) - Len(suffix) + 1, Len(s)) = suffix

\* The positions of character c in s.
Positions(s, c) == {i \in 1..Len(s) : s[i] = c}

Max(S) == CHOOSE m \in S : \A n \in S : n <= m

\* s.rsplit(c, 1)[0]: what precedes the last c, or s when it holds no c.
RsplitFirst(s, c) ==
    IF Positions(s, c) = {} THEN s ELSE SubSeq(s, 1, Max(Positions(s, c)) - 1)

\* " ".join(parts)
RECURSIVE JoinSpace(_)
JoinSpace(parts) ==
    IF parts = <<>> THEN <<>>
    ELSE IF Len(parts) = 1 THEN parts[1]
    ELSE parts[1] \o <<" ">> \o JoinSpace(Tail(parts))

(* ---------------------------- input values ---------------------------- *)

Nick == <<"n">>

PlainEmail == <<"a", "@", "x">>

FedoraEmail == <<"j">> \o FedoraSuffix

\* A fedoraproject.org address whose local part itself holds an '@'.
NestedFedoraEmail == PlainEmail \o FedoraSuffix

\* The strings the resolvers are called with; PlainEmail is given to both.
NickArgs == {Nick, PlainEmail}

EmailArgs == {PlainEmail, FedoraEmail, NestedFedoraEmail}

Identities == NickArgs \cup EmailArgs

Usernames == {<<"j">>, <<"m">>}

\* How the caller passes fas_credentials: left out (the default None),
\* None, a dict, or a dict passed by keyword.
Omitted == [kind |-> "omitted", username |-> <<>>, password |-> <<>>,
            has_base_url |-> FALSE, base_url |-> <<>>]

NoneArg == [kind |-> "none", username |-> <<>>, password |-> <<>>,
            has_base_url |-> FALSE, base_url |-> <<>>]

Creds1 == [kind |-> "dict", username |-> <<"u">>, password |-> <<"p", "w">>,
           has_base_url |-> FALSE, base_url |-> <<>>]

Creds2 == [kind |-> "dict", username |-> <<"u">>, password |-> <<"p", "w">>,
           has_base_url |-> TRUE, base_url |-> <<"h", ":", "/">>]

Keyword(c) == [c EXCEPT !.kind = "keyword"]

CredArgs == {Omitted, NoneArg, Creds1, Keyword(Creds1)}

\* The directory's records and the replies it may give to one request.  A
\* response holds the list of people and a username of its own, which
\* _search_fas reads with response['username']; it may hold an email and an
\* ircnick of its own as well, which _search_fas reads with response.get.
PersonFull == [username |-> <<"j">>, email |-> Some(PlainEmail), ircnick |-> Some(Nick)]

PersonBare == [username |-> <<"m">>, email |-> None, ircnick |-> None]

PeopleLists == {<<>>, <<PersonFull>>, <<PersonBare>>, <<PersonFull, PersonBare>>}

\* The top-level email and ircnick fields of a response, when it has them.
TopFields ==
    { [email |-> None, ircnick |-> None],
      [email |-> Some(PlainEmail), ircnick |-> Some(Nick)],
      [email |-> Some(FedoraEmail), ircnick |-> Some(<<>>)] }

NoPeople == [people |-> <<>>, username |-> <<"j">>, email |-> None, ircnick |-> None]

Responses ==
    {NoPeople} \cup
    { [people |-> p, username |-> u, email |-> t.email, ircnick |-> t.ircnick] :
        p \in PeopleLists \ {<<>>}, u \in Usernames, t \in TopFields }

\* What send_request does: it raises, or it returns a response.
TransportFailure == [raised |-> TRUE, response |-> None]

Replies == {TransportFailure} \cup {[raised |-> FALSE, response |-> Some(r)] : r \in Responses}

(* ----------------------------- the cache ------------------------------ *)

\* str(fas_credentials) for a positional argument.
Str(c) ==
    IF c.kind = "none" THEN NoneStr
    ELSE DictUsername \o c.username \o DictPassword \o c.password
         \o (IF c.has_base_url THEN DictBaseUrl \o c.base_url ELSE <<>>)
         \o DictClose

\* The positional arguments of a call, each as str() gives it.
ArgStrings(identity, cred) ==
    IF cred.kind = "omitted" THEN <<identity>> ELSE <<identity, Str(cred)>>

\* A key generator that leaves the function's name out of the key.
function_key_generator_unnamed(fn, strings) == [ns |-> "", args |-> JoinSpace(strings)]

\* region.function_key_generator(None, fn)(*args): namespace + "|" + the
\* arguments joined by spaces.  The namespace, "module:function", holds no
\* "|", so the key is the pair of the function's name and the joined text.
function_key_generator(fn, strings) == [ns |-> fn, args |-> JoinSpace(strings)]

\* fas_region.set(key, value) on the memory backend.
RegionSet(region, key, value) ==
    [k \in DOMAIN region \cup {key} |-> IF k = key THEN value ELSE region[k]]

NoCache == [k \in {} |-> <<>>]

(* ------------------------- the directory search ----------------------- *)

IsDict(cred) == cred.kind \in {"dict", "keyword"}

\* The request _search_fas sends: the client's construction arguments and
\* the request parameters.
Request(search_string, cred, by_email) ==
    [url |-> IF cred.has_base_url THEN cred.base_url ELSE DefaultBaseUrl,
     username |-> cred.username,
     password |-> cred.password,
     search |-> search_string,
     by_email |-> by_email]

\* One pass of the warming loop's body: it reads the response, not the person.
WarmOnce(region, response) ==
    LET fasname == response.username
        email == response.email
        ircnick == response.ircnick
        afterEmail ==
            IF Truthy(email)
            THEN RegionSet(region, function_key_generator("email2fas", <<email[1]>>), fasname)
            ELSE region
    IN  IF Truthy(ircnick)
        THEN RegionSet(afterEmail, function_key_generator("nick2fas", <<ircnick[1]>>), fasname)
        ELSE afterEmail

\* for person in response['people']: ...
RECURSIVE WarmLoop(_, _, _)
WarmLoop(region, response, people) ==
    IF people = <<>> THEN region
    ELSE WarmLoop(WarmOnce(region, response), response, Tail(people))

\* _search_fas without the test for an empty list of people.
_search_fas_unchecked(region, search_string, cred, by_email, reply) ==
    IF ~IsDict(cred)
    THEN [raised |-> "AttributeError", region |-> region, people |-> <<>>,
          requests |-> <<>>, reply |-> None]
    ELSE LET req == <<Request(search_string, cred, by_email)>> IN
         IF reply.raised
         THEN [raised |-> "TransportFailure", region |-> region, people |-> <<>>,
               requests |-> req, reply |-> None]
         ELSE LET response == reply.response[1] IN
              [raised |-> "", region |-> WarmLoop(region, response, response.people),
               people |-> response.people, requests |-> req,
               reply |-> reply.response]

\* _search_fas against the reply the directory gives to its one request.
_search_fas(region, search_string, cred, by_email, reply) ==
    IF ~IsDict(cred)
    THEN [raised |-> "AttributeError", region |-> region, people |-> <<>>,
          requests |-> <<>>, reply |-> None]
    ELSE LET req == <<Request(search_string, cred, by_email)>> IN
         IF reply.raised
         THEN [raised |-> "TransportFailure", region |-> region, people |-> <<>>,
               requests |-> req, reply |-> None]
         ELSE LET response == reply.response[1] IN
              IF response.people = <<>>
              THEN [raised |-> "NoMatch", region |-> region, people |-> <<>>,
                    requests |-> req, reply |-> reply.response]
              ELSE [raised |-> "", region |-> WarmLoop(region, response, response.people),
                    people |-> response.people, requests |-> req,
                    reply |-> reply.response]

\* SingleMatch returning the response's own username field.
SingleMatchTopUsername(found) ==
    IF found.raised # ""
    THEN [raised |-> found.raised, region |-> found.region, value |-> <<>>,
          requests |-> found.requests, reply |-> found.reply]
    ELSE IF Len(found.people) > 1
    THEN [raised |-> "AmbiguousMatch", region |-> found.region, value |-> <<>>,
          requests |-> found.requests, reply |-> found.reply]
    ELSE [raised |-> "", region |-> found.region, value |-> found.reply[1].username,
          requests |-> found.requests, reply |-> found.reply]

\* The tail both resolvers share: reject several people, return the first's
\* username (people[0] of an empty list is an IndexError).
SingleMatch(found) ==
    IF found.raised # ""
    THEN [raised |-> found.raised, region |-> found.region, value |-> <<>>,
          requests |-> found.requests, reply |-> found.reply]
    ELSE IF Len(found.people) > 1
    THEN [raised |-> "AmbiguousMatch", region |-> found.region, value |-> <<>>,
          requests |-> found.requests, reply |-> found.reply]
    ELSE IF found.people = <<>>
    THEN [raised |-> "IndexError", region |-> found.region, value |-> <<>>,
          requests |-> found.requests, reply |-> found.reply]
    ELSE [raised |-> "", region |-> found.region, value |-> found.people[1].username,
          requests |-> found.requests, reply |-> found.reply]

\* The undecorated nick2fas.
nick2fas_body(region, nickname, cred, reply) ==
    SingleMatch(_search_fas(region, nickname, cred, FALSE, reply))

\* The undecorated email2fas.
email2fas_body(region, email, cred, reply) ==
    IF EndsWith(email, FedoraSuffix)
    THEN [raised |-> "", region |-> region, value |-> RsplitFirst(email, "@"),
          requests |-> <<>>, reply |-> None]
    ELSE SingleMatch(_search_fas(region, email, cred, TRUE, reply))

FunctionBody(fn, region, identity, cred, reply) ==
    IF fn = "nick2fas" THEN nick2fas_body(region, identity, cred, reply)
    ELSE email2fas_body(region, identity, cred, reply)

\* cache_on_arguments that never stores the function's value.
cache_on_arguments_unstored(fn, region, identity, cred, reply) ==
    IF cred.kind = "keyword"
    THEN [raised |-> "KeywordArguments", region |-> region, value |-> <<>>,
          requests |-> <<>>, reply |-> None, hit |-> FALSE]
    ELSE LET key == function_key_generator(fn, ArgStrings(identity, cred)) IN
         IF key \in DOMAIN region
         THEN [raised |-> "", region |-> region, value |-> region[key],
               requests |-> <<>>, reply |-> None, hit |-> TRUE]
         ELSE LET r == FunctionBody(fn, region, identity, cred, reply) IN
              [raised |-> r.raised, region |-> r.region,
               value |-> r.value, requests |-> r.requests, reply |-> r.reply,
               hit |-> FALSE]

\* @fas_region.cache_on_arguments(): the key of the call, then the cached
\* value, else the function's value, which is stored under the key.
cache_on_arguments(fn, region, identity, cred, reply) ==
    IF cred.kind = "keyword"
    THEN [raised |-> "KeywordArguments", region |-> region, value |-> <<>>,
          requests |-> <<>>, reply |-> None, hit |-> FALSE]
    ELSE LET key == function_key_generator(fn, ArgStrings(identity, cred)) IN
         IF key \in DOMAIN region
         THEN [raised |-> "", region |-> region, value |-> region[key],
               requests |-> <<>>, reply |-> None, hit |-> TRUE]
         ELSE LET r == FunctionBody(fn, region, identity, cred, reply) IN
              [raised |-> r.raised,
               region |-> IF r.raised = "" THEN RegionSet(r.region, key, r.value)
                          ELSE r.region,
               value |-> r.value, requests |-> r.requests, reply |-> r.reply,
               hit |-> FALSE]

(* ------------------------------ the calls ----------------------------- *)

Resolvers == {"nick2fas", "email2fas"}

\* The remote searches made so far by calls with this signature.
Searches(sig) == IF sig \in DOMAIN searches THEN searches[sig] ELSE 0

\* The replies that matter to a call: all of them when it sends a request.
RepliesTo(fn, identity, cred) ==
    IF cache_on_arguments(fn, fas_region, identity, cred, TransportFailure).requests = <<>>
    THEN {TransportFailure}
    ELSE Replies

\* For each key written by a call, the resolver it was written for and how:
\* by the decorator ("call") or by the warming loop of a search that found
\* one person ("warm") or several ("warm_many").
OriginAfter(org, fn, identity, cred, r) ==
    LET searched == r.reply # None /\ r.reply[1].people # <<>>
        how == IF searched /\ Len(r.reply[1].people) > 1 THEN "warm_many" ELSE "warm"
        afterEmail ==
            IF searched /\ Truthy(r.reply[1].email)
            THEN RegionSet(org, function_key_generator("email2fas", <<r.reply[1].email[1]>>),
                           [fn |-> "email2fas", how |-> how])
            ELSE org
        afterNick ==
            IF searched /\ Truthy(r.reply[1].ircnick)
            THEN RegionSet(afterEmail,
                           function_key_generator("nick2fas", <<r.reply[1].ircnick[1]>>),
                           [fn |-> "nick2fas", how |-> how])
            ELSE afterEmail
    IN  IF r.raised = "" /\ ~r.hit
        THEN RegionSet(afterNick, function_key_generator(fn, ArgStrings(identity, cred)),
                       [fn |-> fn, how |-> "call"])
        ELSE afterNick

\* A call of a resolver, start to end.
Call(fn, identity, cred, reply) ==
    LET r == cache_on_arguments(fn, fas_region, identity, cred, reply)
        sig == <<fn, identity, cred>>
    IN  /\ ncalls' = ncalls + 1
        /\ origin' = OriginAfter(origin, fn, identity, cred, r)
        /\ resolved' = IF r.raised = ""
                        THEN RegionSet(resolved, sig,
                                       [value |-> r.value,
                                        searched |-> \/ r.requests # <<>>
                                                     \/ /\ sig \in DOMAIN resolved
                                                        /\ resolved[sig].searched])
                        ELSE resolved
        /\ UNCHANGED threads
        /\ fas_region' = r.region
        /\ last' = [fn |-> fn, identity |-> identity, cred |-> cred,
                    raised |-> r.raised, value |-> r.value, hit |-> r.hit,
                    requests |-> r.requests, reply |-> r.reply]
        /\ searches' = IF r.requests = <<>> THEN searches
                        ELSE RegionSet(searches, sig, Searches(sig) + Len(r.requests))
        /\ returned' = IF r.raised = "" THEN returned \cup {sig} ELSE returned
        /\ UNCHANGED <<lastAvatar, avatarLog>>

nick2fas(nickname, fas_credentials) ==
    /\ \E reply \in RepliesTo("nick2fas", nickname, fas_credentials) :
           Call("nick2fas", nickname, fas_credentials, reply)
    /\ UNCHANGED directory

email2fas(email, fas_credentials) ==
    /\ \E reply \in RepliesTo("email2fas", email, fas_credentials) :
           Call("email2fas", email, fas_credentials, reply)
    /\ UNCHANGED directory

NoCall == [fn |-> "", identity |-> <<>>, cred |-> Omitted, raised |-> "",
           value |-> <<>>, hit |-> FALSE, requests |-> <<>>, reply |-> None]

(* ------------------------------ avatars ------------------------------- *)

\* A Python value that is an int or a str.
IntVal(n) == [t |-> "int", n |-> n, s |-> <<>>]

StrVal(s) == [t |-> "str", n |-> 0, s |-> s]

Digits == <<"0", "1", "2", "3", "4", "5", "6", "7", "8", "9">>

\* str(n) for n >= 0.
RECURSIVE IntToStr(_)
IntToStr(n) ==
    IF n < 10 THEN <<Digits[n + 1]>> ELSE IntToStr(n \div 10) \o <<Digits[(n % 10) + 1]>>

\* str(value)
PyStr(v) == IF v.t = "int" THEN IntToStr(v.n) ELSE v.s

SizePlaceholder == <<"{", "s", "i", "z", "e", "}">>

\* template.format(size=size): each "{size}" becomes str(size).
RECURSIVE Format(_, _)
Format(template, size) ==
    IF template = <<>> THEN <<>>
    ELSE IF Len(template) >= Len(SizePlaceholder)
            /\ SubSeq(template, 1, Len(SizePlaceholder)) = SizePlaceholder
    THEN PyStr(size) \o Format(SubSeq(template, Len(SizePlaceholder) + 1, Len(template)), size)
    ELSE <<Head(template)>> \o Format(Tail(template), size)

Bodhi == <<"b", "o", "d", "h", "i">>

Koschei == <<"k", "o", "s", "c", "h", "e", "i">>

Taskotron == <<"t", "a", "s", "k", "o", "t", "r", "o", "n">>

BodhiTemplate == <<"h", "t", "t", "p", "s", ":", "/", "/", "a", "p", "p", "s", ".", "f", "e", "d", "o", "r", "a", "p", "r", "o", "j", "e", "c", "t", ".", "o", "r", "g", "/", "i", "m", "g", "/", "i", "c", "o", "n", "s", "/", "b", "o", "d", "h", "i", "-", "{", "s", "i", "z", "e", "}", ".", "p", "n", "g">>

KoscheiTemplate == <<"h", "t", "t", "p", "s", ":", "/", "/", "a", "p", "p", "s", ".", "f", "e", "d", "o", "r", "a", "p", "r", "o", "j", "e", "c", "t", ".", "o", "r", "g", "/", "i", "m", "g", "/", "i", "c", "o", "n", "s", "/", "k", "o", "s", "c", "h", "e", "i", "-", "{", "s", "i", "z", "e", "}", ".", "p", "n", "g">>

TaskotronTemplate == <<"h", "t", "t", "p", "s", ":", "/", "/", "a", "p", "p", "s", ".", "f", "e", "d", "o", "r", "a", "p", "r", "o", "j", "e", "c", "t", ".", "o", "r", "g", "/", "i", "m", "g", "/", "i", "c", "o", "n", "s", "/", "t", "a", "s", "k", "o", "t", "r", "o", "n", "-", "{", "s", "i", "z", "e", "}", ".", "p", "n", "g">>

hardcoded_avatars ==
    [u \in {Bodhi, Koschei, Taskotron} |->
        IF u = Bodhi THEN BodhiTemplate
        ELSE IF u = Koschei THEN KoscheiTemplate
        ELSE TaskotronTemplate]

OpenidPrefix == <<"h", "t", "t", "p", ":", "/", "/">>

OpenidSuffix == <<".", "i", "d", ".", "f", "e", "d", "o", "r", "a", "p", "r", "o", "j", "e", "c", "t", ".", "o", "r", "g", "/">>

LibravatarPrefix == <<"h", "t", "t", "p", "s", ":", "/", "/", "s", "e", "c", "c", "d", "n", ".", "l", "i", "b", "r", "a", "v", "a", "t", "a", "r", ".", "o", "r", "g", "/", "a", "v", "a", "t", "a", "r", "/">>

\* urllib's quote_plus on one character: letters, digits and "_.-" stay,
\* a space becomes "+", anything else is percent-encoded.
QuoteChar(c) ==
    IF c = " " THEN <<"+">>
    ELSE IF c = "/" THEN <<"%", "2", "F">>
    ELSE IF c = ":" THEN <<"%", "3", "A">>
    ELSE IF c = "&" THEN <<"%", "2", "6">>
    ELSE IF c = "=" THEN <<"%", "3", "D">>
    ELSE IF c = "@" THEN <<"%", "4", "0">>
    ELSE <<c>>

RECURSIVE QuotePlus(_)
QuotePlus(s) == IF s = <<>> THEN <<>> ELSE QuoteChar(Head(s)) \o QuotePlus(Tail(s))

\* collections.OrderedDict(params): the first place of each key, its last value.
RECURSIVE _ordered_query_params(_)
_ordered_query_params(params) ==
    IF params = <<>> THEN <<>>
    ELSE LET front == _ordered_query_params(SubSeq(params, 1, Len(params) - 1))
             item == params[Len(params)]
         IN  IF \E i \in 1..Len(front) : front[i].key = item.key
             THEN [i \in 1..Len(front) |->
                      IF front[i].key = item.key THEN item ELSE front[i]]
             ELSE Append(front, item)

\* parse.urlencode(params): key=value pairs, quoted, joined by "&".
RECURSIVE urlencode(_)
urlencode(params) ==
    IF params = <<>> THEN <<>>
    ELSE LET pair == QuotePlus(params[1].key) \o <<"=">> \o QuotePlus(PyStr(params[1].value))
         IN  IF Len(params) = 1 THEN pair ELSE pair \o <<"&">> \o urlencode(Tail(params))

\* hashlib's hexdigest, as a term.
Digest(alg, data) == [alg |-> alg, data |-> data]

\* A URL: head, then the hex digest when there is one, then tail.
Url(head, hash, tail) == [head |-> head, hash |-> hash, tail |-> tail]

QueryParams(size, default) ==
    _ordered_query_params(<<[key |-> <<"s">>, value |-> size],
                            [key |-> <<"d">>, value |-> default]>>)

\* avatar_url_from_openid hashing as avatar_url_from_email does.
avatar_url_from_openid_md5(openid, size, default, dns, federated) ==
    IF dns THEN federated
    ELSE Url(LibravatarPrefix, Some(Digest("md5", openid)),
             <<"?">> \o urlencode(QueryParams(size, default)))

\* avatar_url_from_openid; federated is what libravatar.libravatar_url answers.
avatar_url_from_openid(openid, size, default, dns, federated) ==
    IF dns THEN federated
    ELSE Url(LibravatarPrefix, Some(Digest("sha256", openid)),
             <<"?">> \o urlencode(QueryParams(size, default)))

\* avatar_url_from_email; federated is what libravatar.libravatar_url answers.
avatar_url_from_email(email, size, default, dns, federated) ==
    IF dns THEN federated
    ELSE Url(LibravatarPrefix, Some(Digest("md5", email)),
             <<"?">> \o urlencode(QueryParams(size, default)))

\* avatar_url without the table of hardcoded avatars.
avatar_url_hashed(username, size, default) ==
    avatar_url_from_openid(OpenidPrefix \o username \o OpenidSuffix,
                           size, default, FALSE, Url(<<>>, None, <<>>))

avatar_url(username, size, default) ==
    IF username \in DOMAIN hardcoded_avatars
    THEN Url(Format(hardcoded_avatars[username], size), None, <<>>)
    ELSE avatar_url_from_openid(OpenidPrefix \o username \o OpenidSuffix,
                                size, default, FALSE, Url(<<>>, None, <<>>))

AvatarUsernames == {Bodhi, Koschei, Taskotron, <<"j">>}

Openids == {OpenidPrefix \o <<"j">> \o OpenidSuffix}

Sizes == {IntVal(64), IntVal(128)}

Defaults == {StrVal(<<"r", "e", "t", "r", "o">>), StrVal(<<"a", " ", "/">>)}

\* What the federated lookup may answer.
FederatedAnswers == {Url(<<"f", "1">>, None, <<>>), Url(<<"f", "2">>, None, <<>>)}

NoAvatar == [fn |-> "", identity |-> <<>>, size |-> IntVal(0), default |-> StrVal(<<>>),
             dns |-> FALSE, url |-> Url(<<>>, None, <<>>)]

AvatarRecord(fn, identity, size, default, dns, url) ==
    [fn |-> fn, identity |-> identity, size |-> size, default |-> default,
     dns |-> dns, url |-> url]

\* The calls of each avatar function over the inputs, with the URL each returns.
AvatarUrlCalls ==
    { AvatarRecord("avatar_url", username, size, default, FALSE,
                   avatar_url(username, size, default)) :
        username \in AvatarUsernames, size \in Sizes, default \in Defaults }

OpenidInputs == Openids \X Sizes \X Defaults \X BOOLEAN \X FederatedAnswers

AvatarUrlFromOpenidCalls ==
    { AvatarRecord("avatar_url_from_openid", i[1], i[2], i[3], i[4],
                   avatar_url_from_openid(i[1], i[2], i[3], i[4], i[5])) :
        i \in OpenidInputs }

EmailInputs == {PlainEmail} \X Sizes \X Defaults \X BOOLEAN \X FederatedAnswers

AvatarUrlFromEmailCalls ==
    { AvatarRecord("avatar_url_from_email", i[1], i[2], i[3], i[4],
                   avatar_url_from_email(i[1], i[2], i[3], i[4], i[5])) :
        i \in EmailInputs }

\* An avatar function that kept its URL in the cache region.
AvatarCallMemoized(call) ==
    /\ ncalls < MaxAvatarCalls
    /\ ncalls' = ncalls + 1
    /\ lastAvatar' = call
    /\ avatarLog' = avatarLog \cup {[call |-> call, region |-> fas_region]}
    /\ fas_region' = RegionSet(fas_region,
                               function_key_generator(call.fn, <<call.identity>>),
                               call.url.head)
    /\ UNCHANGED <<last, searches, returned, origin, resolved, directory, threads>>

\* An avatar function called and its URL returned.
AvatarCall(call) ==
    /\ ncalls < MaxAvatarCalls
    /\ ncalls' = ncalls + 1
    /\ lastAvatar' = call
    /\ avatarLog' = avatarLog \cup {[call |-> call, region |-> fas_region]}
    /\ UNCHANGED <<fas_region, last, searches, returned, origin, resolved,
                   directory, threads>>

AvatarUrl == \E call \in AvatarUrlCalls : AvatarCall(call)

AvatarUrlFromOpenid == \E call \in AvatarUrlFromOpenidCalls : AvatarCall(call)

AvatarUrlFromEmail == \E call \in AvatarUrlFromEmailCalls : AvatarCall(call)

(* ------------------------------ threads ------------------------------- *)

\* The threads of the host process that call the resolvers at the same time.
Threads == {"t1", "t2"}

\* A thread that has not called yet.
Idle == [pc |-> "idle", fn |-> "", identity |-> <<>>, cred |-> Omitted,
         reply |-> TransportFailure, left |-> <<>>, raised |-> "", value |-> <<>>,
         requests |-> <<>>, missed |-> FALSE]

\* The calls the threads make.
ThreadCalls ==
    { <<"nick2fas", Nick, Creds1>>, <<"email2fas", PlainEmail, Creds1>>,
      <<"nick2fas", Nick, Omitted>>, <<"email2fas", FedoraEmail, Omitted>> }

\* What the directory may answer to a thread's request.
ThreadReplies ==
    {TransportFailure} \cup
    {[raised |-> FALSE, response |-> Some(r)] :
        r \in {NoPeople} \cup {x \in Responses : x.email = Some(PlainEmail)}}

\* The key of the call a thread is in.
ThreadKey(t) ==
    function_key_generator(threads[t].fn, ArgStrings(threads[t].identity, threads[t].cred))

\* Where a thread is while it holds the mutex of its key.
Holding == {"recheck", "request", "warm_email", "warm_nick", "set"}

\* A region whose keys have no mutex.
MutexNeverHeld(key, t) == TRUE

\* The region keeps one mutex per key: get_or_create takes it, blocking,
\* when the key is missing, and gives it back when the creator has returned
\* or raised.
MutexFree(key, t) ==
    \A u \in Threads \ {t} : ~(threads[u].pc \in Holding /\ ThreadKey(u) = key)

\* What a thread's step leaves alone besides the cache and the threads.
sequential == <<last, searches, returned, lastAvatar, avatarLog, ncalls,
                origin, resolved, directory>>

\* The decorated function is called: the key, then the first get.
Enter(t, call) ==
    LET key == function_key_generator(call[1], ArgStrings(call[2], call[3]))
        hit == key \in DOMAIN fas_region
    IN  /\ threads[t].pc = "idle"
        /\ threads' = [threads EXCEPT ![t] =
                          [Idle EXCEPT !.fn = call[1], !.identity = call[2],
                                       !.cred = call[3], !.missed = ~hit,
                                       !.value = IF hit THEN fas_region[key] ELSE <<>>,
                                       !.pc = IF hit THEN "done" ELSE "acquire"]]
        /\ UNCHANGED <<fas_region, sequential>>

\* The key was missing: wait for its mutex.
Acquire(t) ==
    /\ threads[t].pc = "acquire"
    /\ MutexFree(ThreadKey(t), t)
    /\ threads' = [threads EXCEPT ![t].pc = "recheck"]
    /\ UNCHANGED <<fas_region, sequential>>

\* With the mutex: get again, and if the key is still missing run the
\* function up to its request, if it sends one.
Recheck(t) ==
    LET th == threads[t]
        body == FunctionBody(th.fn, fas_region, th.identity, th.cred, TransportFailure)
    IN  /\ th.pc = "recheck"
        /\ threads' =
              IF ThreadKey(t) \in DOMAIN fas_region
              THEN [threads EXCEPT ![t].value = fas_region[ThreadKey(t)], ![t].pc = "done"]
              ELSE IF body.requests # <<>>
              THEN [threads EXCEPT ![t].pc = "request"]
              ELSE IF body.raised # ""
              THEN [threads EXCEPT ![t].raised = body.raised, ![t].pc = "done"]
              ELSE [threads EXCEPT ![t].value = body.value, ![t].pc = "set"]
        /\ UNCHANGED <<fas_region, sequential>>

\* send_request and the test for an empty list of people.
SendRequest(t, reply) ==
    LET th == threads[t]
        found == _search_fas(NoCache, th.identity, th.cred, th.fn = "email2fas", reply)
    IN  /\ th.pc = "request"
        /\ threads' =
              IF found.raised # ""
              THEN [threads EXCEPT ![t].requests = found.requests, ![t].reply = reply,
                                   ![t].raised = found.raised, ![t].pc = "done"]
              ELSE [threads EXCEPT ![t].requests = found.requests, ![t].reply = reply,
                                   ![t].left = found.people, ![t].pc = "warm_email"]
        /\ UNCHANGED <<fas_region, sequential>>

\* The warming loop's first set, for the person the loop is at.
WarmEmail(t) ==
    LET response == threads[t].reply.response[1] IN
    /\ threads[t].pc = "warm_email"
    /\ fas_region' =
          IF Truthy(response.email)
          THEN RegionSet(fas_region, function_key_generator("email2fas", <<response.email[1]>>),
                         response.username)
          ELSE fas_region
    /\ threads' = [threads EXCEPT ![t].pc = "warm_nick"]
    /\ UNCHANGED sequential

\* The warming loop's second set, and after the last person the count of
\* the people in the resolver.
WarmNick(t) ==
    LET th == threads[t]
        response == th.reply.response[1]
        match == SingleMatch([raised |-> "", region |-> NoCache, people |-> response.people,
                              requests |-> th.requests, reply |-> th.reply.response])
    IN  /\ th.pc = "warm_nick"
        /\ fas_region' =
              IF Truthy(response.ircnick)
              THEN RegionSet(fas_region,
                             function_key_generator("nick2fas", <<response.ircnick[1]>>),
                             response.username)
              ELSE fas_region
        /\ threads' =
              IF Tail(th.left) # <<>>
              THEN [threads EXCEPT ![t].left = Tail(th.left), ![t].pc = "warm_email"]
              ELSE IF match.raised # ""
              THEN [threads EXCEPT ![t].left = <<>>, ![t].raised = match.raised,
                                   ![t].pc = "done"]
              ELSE [threads EXCEPT ![t].left = <<>>, ![t].value = match.value,
                                   ![t].pc = "set"]
        /\ UNCHANGED sequential

\* The function has returned: its value is set under the key and the mutex
\* is given back.
SetAndRelease(t) ==
    /\ threads[t].pc = "set"
    /\ fas_region' = RegionSet(fas_region, ThreadKey(t), threads[t].value)
    /\ threads' = [threads EXCEPT ![t].pc = "done"]
    /\ UNCHANGED sequential

(* --------------------------- the state machine ------------------------ *)

Init ==
    /\ fas_region = NoCache
    /\ last = NoCall
    /\ searches = [sig \in {} |-> 0]
    /\ returned = {}
    /\ lastAvatar = NoAvatar
    /\ avatarLog = {}
    /\ ncalls = 0
    /\ origin = [k \in {} |-> [fn |-> "", how |-> ""]]
    /\ resolved = [sig \in {} |-> [value |-> <<>>, searched |-> FALSE]]
    /\ directory = [q \in {} |-> TransportFailure]
    /\ threads = [t \in Threads |-> Idle]

Nick2Fas ==
    /\ ncalls < MaxCalls
    /\ \E nickname \in NickArgs, cred \in CredArgs : nick2fas(nickname, cred)

Email2Fas ==
    /\ ncalls < MaxCalls
    /\ \E email \in EmailArgs, cred \in CredArgs : email2fas(email, cred)

\* The resolvers, called in any order with any of the inputs.
Next ==
    \/ Nick2Fas
    \/ Email2Fas

Spec == Init /\ [][Next]_vars

\* A few lookups that fill the cache, for the behaviours of the avatar functions.
LookupReplies ==
    { TransportFailure,
      [raised |-> FALSE,
       response |-> Some([people |-> <<PersonFull>>, username |-> <<"j">>,
                          email |-> Some(PlainEmail), ircnick |-> Some(Nick)])] }

Lookup ==
    /\ ncalls < MaxAvatarCalls
    /\ \/ \E reply \in LookupReplies : Call("nick2fas", Nick, Creds2, reply)
       \/ Call("email2fas", FedoraEmail, Omitted, TransportFailure)
    /\ UNCHANGED directory

\* The avatar functions, called in any order among lookups.
NextAvatar ==
    \/ AvatarUrl
    \/ AvatarUrlFromOpenid
    \/ AvatarUrlFromEmail
    \/ Lookup

SpecAvatar == Init /\ [][NextAvatar]_vars

\* The calls made while the directory's content stays as it is.
StableCalls ==
    {<<"nick2fas", Nick>>, <<"email2fas", PlainEmail>>, <<"email2fas", FedoraEmail>>}
        \X {Creds1, Omitted}

\* What the directory may hold for a request.
DirectoryReplies ==
    {TransportFailure} \cup
    {[raised |-> FALSE, response |-> Some(r)] :
        r \in {x \in Responses : x.email = Some(PlainEmail)}}

\* A call of a resolver against a directory that answers a request it has
\* answered before as it answered then.
StableCall(fn, identity, cred) ==
    LET requests == cache_on_arguments(fn, fas_region, identity, cred,
                                       TransportFailure).requests
    IN  IF requests = <<>>
        THEN /\ Call(fn, identity, cred, TransportFailure)
             /\ UNCHANGED directory
        ELSE \E reply \in (IF requests[1] \in DOMAIN directory
                            THEN {directory[requests[1]]}
                            ELSE DirectoryReplies) :
                /\ Call(fn, identity, cred, reply)
                /\ directory' = RegionSet(directory, requests[1], reply)

Resolve ==
    /\ ncalls < MaxStableCalls
    /\ \E c \in StableCalls : StableCall(c[1][1], c[1][2], c[2])

\* A backend other than the memory backend drops an entry.
Evict ==
    /\ \E key \in DOMAIN fas_region :
           fas_region' = [k \in DOMAIN fas_region \ {key} |-> fas_region[k]]
    /\ UNCHANGED <<last, searches, returned, lastAvatar, avatarLog, ncalls,
                   origin, resolved, directory, threads>>

\* fas_region.configure(..., replace_existing_backend=True): the entries
\* are gone.
Reconfigure ==
    /\ fas_region # NoCache
    /\ fas_region' = NoCache
    /\ UNCHANGED <<last, searches, returned, lastAvatar, avatarLog, ncalls,
                   origin, resolved, directory, threads>>

NextEvict ==
    \/ Resolve
    \/ Evict
    \/ Reconfigure

SpecEvict == Init /\ [][NextEvict]_vars

\* Two threads, each calling a resolver once, their steps in any order.
NextThreads ==
    \/ \E t \in Threads, call \in ThreadCalls : Enter(t, call)
    \/ \E t \in Threads : Acquire(t)
    \/ \E t \in Threads : Recheck(t)
    \/ \E t \in Threads, reply \in ThreadReplies : SendRequest(t, reply)
    \/ \E t \in Threads : WarmEmail(t)
    \/ \E t \in Threads : WarmNick(t)
    \/ \E t \in Threads : SetAndRelease(t)

SpecThreads == Init /\ [][NextThreads]_vars

(* ------------------------------ properties ---------------------------- *)

\* The last step was a call of a resolver.
Called == ncalls' = ncalls + 1 /\ last'.fn \in Resolvers

\* The key a call's arguments are cached under.
KeyOf(call) == function_key_generator(call.fn, ArgStrings(call.identity, call.cred))

SignatureOf(call) == <<call.fn, call.identity, call.cred>>

\* The call sent a request and the directory answered with this many people.
Answered(call, n) == call.reply # None /\ Len(call.reply[1].people) = n

\* C1 (as claimed): email2fas of an address ending in @fedoraproject.org,
\* whatever credentials are passed or left out, returns what precedes the
\* last '@' and sends no request, in every cache state.
C1_ShortCircuitAlways ==
    (/\ last.fn = "email2fas"
     /\ EndsWith(last.identity, FedoraSuffix)
     /\ last.cred.kind # "keyword")
    => (/\ last.raised = ""
        /\ last.value = RsplitFirst(last.identity, "@")
        /\ last.requests = <<>>)

\* C2 (as claimed): after nick2fas(nick, creds) has returned from a search
\* that found exactly one person with an email and an IRC nickname,
\* email2fas(that email, creds) sends no request and returns the same username.
C2_SiblingLookupIsHit ==
    [][(/\ Called
        /\ last.fn = "nick2fas" /\ last.raised = "" /\ Answered(last, 1)
        /\ Truthy(last.reply[1].people[1].email)
        /\ Truthy(last.reply[1].people[1].ircnick)
        /\ last'.fn = "email2fas"
        /\ last'.identity = last.reply[1].people[1].email[1]
        /\ last'.cred = last.cred)
       => (/\ last'.requests = <<>>
           /\ last'.raised = ""
           /\ last'.value = last.value)]_vars

\* C3 (as claimed): the calls of one resolver with one (identity,
\* credentials) send at most one request in all.
C3_AtMostOneSearch == \A sig \in DOMAIN searches : searches[sig] <= 1

\* C3 (amended): once a call of a resolver with given arguments has
\* returned a username, no later call with the same arguments sends a request.
C3_NoSearchAfterReturn ==
    [][\A sig \in returned : Searches(sig)' = Searches(sig)]_vars

\* A call found its value in the cache where an earlier call with the same
\* arguments had put it after one search.
C3_Witness ==
    /\ last.hit
    /\ SignatureOf(last) \in returned
    /\ Searches(SignatureOf(last)) = 1

\* C4 (as claimed): a call whose search finds two or more people raises
\* AmbiguousMatch and leaves the cache as it was.
C4_AmbiguousWritesNothing ==
    [][(Called /\ last'.reply # None /\ Len(last'.reply[1].people) >= 2)
       => (last'.raised = "AmbiguousMatch" /\ fas_region' = fas_region)]_vars

\* C5: a call whose search finds nobody raises NoMatch and leaves the cache
\* as it was, without an entry under the call's key.
C5_NoMatchLeavesCache ==
    [][(Called /\ Answered(last', 0))
       => (/\ last'.raised = "NoMatch"
           /\ fas_region' = fas_region
           /\ KeyOf(last') \notin DOMAIN fas_region')]_vars

\* A call sent its request, found nobody and raised.
C5_Witness == Answered(last, 0) /\ last.raised = "NoMatch" /\ Len(last.requests) = 1

\* C6: a call that misses the cache and whose search finds exactly one
\* person returns that person's username, and the cache then holds that
\* username under the call's key.
C6_SingleMatchCached ==
    (last.fn \in Resolvers /\ ~last.hit /\ Answered(last, 1))
    => (/\ last.raised = ""
        /\ last.value = last.reply[1].people[1].username
        /\ KeyOf(last) \in DOMAIN fas_region
        /\ fas_region[KeyOf(last)] = last.value)

\* A call returned the one person found, whose username is not the
\* response's own.
C6_Witness ==
    /\ last.fn \in Resolvers /\ ~last.hit /\ Answered(last, 1)
    /\ last.raised = ""
    /\ last.reply[1].username # last.reply[1].people[1].username

\* C7 (as claimed): a transport failure reaches the caller after exactly
\* one request, and a call that fails in any way leaves the cache as it was.
C7_FailureLeavesCache ==
    [][(Called /\ last'.raised # "")
       => (/\ fas_region' = fas_region
           /\ last'.raised = "TransportFailure" => Len(last'.requests) = 1)]_vars

\* sub is a substring of s.
Contains(s, sub) ==
    \E i \in 1..(Len(s) + 1) :
        /\ i + Len(sub) - 1 <= Len(s)
        /\ SubSeq(s, i, i + Len(sub) - 1) = sub

\* C8 (as claimed): no key and no value of the cache holds the credentials
\* passed to a resolver.
C8_NoCredentialsCached ==
    \A k \in DOMAIN fas_region : \A c \in {a \in CredArgs \cup {Creds2} : a.kind = "dict"} :
        /\ ~Contains(k.args, c.password)
        /\ ~Contains(fas_region[k], c.password)

\* The calls of an avatar function made so far.
CallsOf(fn) == {e.call : e \in {x \in avatarLog : x.call.fn = fn}}

Min(S) == CHOOSE m \in S : \A n \in S : m <= n

\* template with its "{size}" replaced by text.
Filled(template, text) ==
    LET i == Min({k \in 1..(Len(template) - Len(SizePlaceholder) + 1) :
                    SubSeq(template, k, k + Len(SizePlaceholder) - 1) = SizePlaceholder})
    IN  SubSeq(template, 1, i - 1) \o text
        \o SubSeq(template, i + Len(SizePlaceholder), Len(template))

\* C9: avatar_url of a username in hardcoded_avatars is that username's
\* template with {size} replaced by the size, with no hash in it and the same
\* for every default; of any other username it is avatar_url_from_openid of
\* 'http://<username>.id.fedoraproject.org/' with dns off.
C9_AvatarUrl ==
    \A c \in CallsOf("avatar_url") :
        IF c.identity \in {Bodhi, Koschei, Taskotron}
        THEN /\ c.url = Url(Filled(hardcoded_avatars[c.identity], PyStr(c.size)), None, <<>>)
             /\ \A d \in CallsOf("avatar_url") :
                    (d.identity = c.identity /\ d.size = c.size) => d.url = c.url
        ELSE c.url = avatar_url_from_openid(OpenidPrefix \o c.identity \o OpenidSuffix,
                                            c.size, c.default, FALSE, Url(<<>>, None, <<>>))

\* avatar_url was called twice for one username of the table and one size,
\* with two defaults.
C9_Witness ==
    \E c, d \in CallsOf("avatar_url") :
        /\ c.identity \in DOMAIN hardcoded_avatars
        /\ d.identity = c.identity /\ d.size = c.size /\ d.default # c.default

\* C10: avatar_url_from_openid with dns off returns
\* 'https://seccdn.libravatar.org/avatar/', the SHA-256 hex digest of the
\* OpenID, '?' and the query s=size&d=default, the same URL for the same
\* arguments whatever the state it is called in.
C10_OpenidUrlDeterministic ==
    \A c \in CallsOf("avatar_url_from_openid") :
        ~c.dns =>
            /\ c.url = Url(LibravatarPrefix, Some(Digest("sha256", c.identity)),
                           <<"?", "s", "=">> \o QuotePlus(PyStr(c.size))
                           \o <<"&", "d", "=">> \o QuotePlus(PyStr(c.default)))
            /\ \A d \in CallsOf("avatar_url_from_openid") :
                   (/\ d.identity = c.identity /\ d.size = c.size
                    /\ d.default = c.default /\ d.dns = c.dns) => d.url = c.url

\* avatar_url_from_openid was called with the same arguments, dns off, in
\* two states whose caches differ.
C10_Witness ==
    \E e, f \in avatarLog :
        /\ e.call.fn = "avatar_url_from_openid" /\ ~e.call.dns
        /\ f.call = e.call
        /\ f.region # e.region

\* An avatar function returned in this step.
AvatarReturned ==
    /\ ncalls' = ncalls + 1
    /\ avatarLog' # avatarLog \/ lastAvatar' # lastAvatar

\* C11: a call of avatar_url, avatar_url_from_openid or avatar_url_from_email
\* with dns off leaves the cache as it was and sends no request to the
\* directory, in every state, and the URL it returns does not depend on the
\* cache it is called with.
C11_AvatarLeavesCache ==
    [][(AvatarReturned /\ ~lastAvatar'.dns) =>
          /\ fas_region' = fas_region
          /\ searches' = searches
          /\ \A e \in avatarLog :
                 (/\ e.call.fn = lastAvatar'.fn /\ e.call.identity = lastAvatar'.identity
                  /\ e.call.size = lastAvatar'.size /\ e.call.default = lastAvatar'.default
                  /\ e.call.dns = lastAvatar'.dns) => e.call.url = lastAvatar'.url]_vars

\* Two of the avatar functions were called with dns off in a state whose
\* cache holds an entry.
C11_Witness ==
    \E e, f \in avatarLog :
        /\ e.call.fn # f.call.fn
        /\ ~e.call.dns /\ ~f.call.dns
        /\ e.region # NoCache /\ f.region # NoCache

\* C12 (as claimed): a call of email2fas with an email ending in
\* '@fedoraproject.org' does not look the cache up and does not write to it:
\* the cache after the call is the cache before it and the call is never
\* answered from a cache entry.
C12_ShortCircuitSkipsCache ==
    [][(Called /\ last'.fn = "email2fas" /\ EndsWith(last'.identity, FedoraSuffix)
        /\ last'.raised = "") =>
          /\ fas_region' = fas_region
          /\ ~last'.hit]_vars

\* The people of the response the last call's search got, when it got one.
Found(call) == IF call.reply = None THEN <<>> ELSE call.reply[1].people

\* The entries of one resolver whose key starts with the identity: the key
\* of a call with no credentials, or of one with credentials after it.
EntriesFor(fn, identity) ==
    {k \in DOMAIN fas_region :
        /\ k.ns = fn
        /\ \/ k.args = identity
           \/ /\ Len(k.args) > Len(identity)
              /\ SubSeq(k.args, 1, Len(identity) + 1) = identity \o <<" ">>}

\* C13 (as claimed): after _search_fas has succeeded, every person of the
\* result with an email has an email-keyed entry for that email holding the
\* response's top-level username, and every person with an IRC nickname has
\* a nickname-keyed entry for that nickname holding it.
C13_EveryPersonWarmed ==
    (last.fn \in Resolvers /\ Found(last) # <<>>) =>
        \A i \in 1..Len(Found(last)) :
            LET p == Found(last)[i] IN
            /\ Truthy(p.email) =>
                   \E k \in EntriesFor("email2fas", p.email[1]) :
                       fas_region[k] = last.reply[1].username
            /\ Truthy(p.ircnick) =>
                   \E k \in EntriesFor("nick2fas", p.ircnick[1]) :
                       fas_region[k] = last.reply[1].username

\* C14 (as claimed): no call of nick2fas or email2fas is answered from an
\* entry that the warming loop wrote during a search that found more than
\* one person.
C14_WarmedManyNeverServed ==
    (last.fn \in Resolvers /\ last.hit) => origin[KeyOf(last)].how # "warm_many"

\* C17: a value written for nick2fas under an argument x is never returned
\* by email2fas called with x, nor one written for email2fas by nick2fas:
\* every call answered from the cache is answered from an entry written for
\* the resolver that was called.
C17_NoCrossResolverHit ==
    (last.fn \in Resolvers /\ last.hit) => origin[KeyOf(last)].fn = last.fn

\* One resolver has returned for arguments under which the cache holds an
\* entry of the other resolver with another username.
C17_Witness ==
    /\ last.fn \in Resolvers /\ last.raised = ""
    /\ \E k \in DOMAIN fas_region :
           /\ k.ns \in Resolvers \ {last.fn}
           /\ k.args = KeyOf(last).args
           /\ fas_region[k] # last.value

\* C16 (as claimed): when the entry of arguments that a resolver has
\* returned a username for is gone from the cache, evicted or discarded by
\* reconfiguration, the next call with those arguments sends exactly one
\* request, returns the username returned before, the directory being as it
\* was, and leaves the entry in the cache again; a call whose entry is in the
\* cache is answered from it.
C16_MissRecursOnce ==
    [][Called =>
          /\ (SignatureOf(last') \in returned /\ KeyOf(last') \notin DOMAIN fas_region) =>
                 /\ Len(last'.requests) = 1
                 /\ last'.raised = ""
                 /\ last'.value = resolved[SignatureOf(last')].value
                 /\ KeyOf(last') \in DOMAIN fas_region'
                 /\ fas_region'[KeyOf(last')] = last'.value
          /\ KeyOf(last') \in DOMAIN fas_region => last'.hit]_vars

\* Both threads have called the same resolver with the same arguments and
\* both calls are over.
SameCallDone ==
    /\ \A t \in Threads : threads[t].pc = "done"
    /\ \A t, u \in Threads :
           /\ threads[t].fn = threads[u].fn
           /\ threads[t].identity = threads[u].identity
           /\ threads[t].cred = threads[u].cred

\* C15: when two threads call the same resolver with the same identity and
\* credentials on a key that is not cached, then, however their steps
\* interleave, once both are over every call that returned has returned the
\* username the cache holds under the key, so both return the same one.
C15_ConcurrentSameKey ==
    SameCallDone =>
        \A t \in Threads :
            threads[t].raised = "" =>
                /\ ThreadKey(t) \in DOMAIN fas_region
                /\ fas_region[ThreadKey(t)] = threads[t].value
                /\ \A u \in Threads : threads[u].raised = "" =>
                                          threads[u].value = threads[t].value

\* Both threads found the key missing at their first get, one of them
\* searched, and both have returned.
C15_Witness ==
    /\ SameCallDone
    /\ \A t \in Threads : threads[t].missed /\ threads[t].raised = ""
    /\ \E t \in Threads : threads[t].requests # <<>>

\* The replies a thread's call may get when it is run on its own: the one it
\* got, when it sent a request.
RepliesOf(t) == IF threads[t].requests # <<>> THEN {threads[t].reply} ELSE ThreadReplies

\* The caches that running t's call and then u's call may leave.
Serial(t, u) ==
    { cache_on_arguments(threads[u].fn,
                         cache_on_arguments(threads[t].fn, NoCache, threads[t].identity,
                                            threads[t].cred, rt).region,
                         threads[u].identity, threads[u].cred, ru).region :
        rt \in RepliesOf(t), ru \in RepliesOf(u) }

\* C18 (as claimed): when two lookups that ran at the same time are over,
\* the cache is what running the two calls one after the other, in one of
\* the two orders, leaves.
C18_WarmingAtomic ==
    (\A t \in Threads : threads[t].pc = "done") =>
        \E t, u \in Threads : t # u /\ fas_region \in Serial(t, u)

====
